---- MODULE Spec2Model ----
(***************************************************************************)
(* A model of getlantern/telemetry: the environment-driven construction of *)
(* the base sampler (sampler_env.go), the activation of tracing            *)
(* (telemetry.go, EnableOTELTracing), the override sampler and the         *)
(* force-sample context annotation (telemetry.go), and the request-level   *)
(* handler decorator exercised by the package's tests.                     *)
(*                                                                         *)
(* Strings are sequences of one-character strings, so that trimming,       *)
(* lower-casing and number parsing are computed, not assumed.              *)
(***************************************************************************)
EXTENDS Integers, Sequences, FiniteSets, TLC

VARIABLES
    env,          \* the process environment: the two OTEL_* variables
    nanConv,      \* what the build's float-to-uint64 conversion makes of NaN (platform dependent)
    exps,         \* the exporters created so far, in creation order
    tps,          \* the tracer providers created so far, in creation order
    globalTP,     \* otel's global tracer provider: 0 (the no-op default) or an index of tps
    globalProp,   \* otel's global text-map propagator
    closures,     \* the shutdown functions returned by EnableOTELTracing, in call order
    shutdownLog,  \* the shutdown calls made on providers and exporters, in order
    sfe,          \* the outcome of the last direct call of samplerFromEnv
    ctxs,         \* the heap of derived contexts (context 0 is context.Background())
    rules,        \* the rules the handler decorator was built with
    reqs          \* the requests in flight

vars == <<env, nanConv, exps, tps, globalTP, globalProp, closures, shutdownLog,
          sfe, ctxs, rules, reqs>>

(***************************************************************************)
(* Bounds                                                                  *)
(***************************************************************************)
MaxEnableCalls == 1
MaxShutdownCalls == 2
MaxDerive == 1

(***************************************************************************)
(* Strings                                                                 *)
(***************************************************************************)
UpperLetters == <<"A","B","C","D","E","F","G","H","I","J","K","L","M",
                  "N","O","P","Q","R","S","T","U","V","W","X","Y","Z">>
LowerLetters == <<"a","b","c","d","e","f","g","h","i","j","k","l","m",
                  "n","o","p","q","r","s","t","u","v","w","x","y","z">>
DigitChars == <<"0","1","2","3","4","5","6","7","8","9">>
SpaceChars == {" ", "\t", "\n", "\r", "\f"}

IndexIn(seq, c) == CHOOSE i \in 1..Len(seq) : seq[i] = c
Occurs(seq, c) == \E i \in 1..Len(seq) : seq[i] = c

\* unicode.ToLower on one character
LowerChar(c) == IF Occurs(UpperLetters, c) THEN LowerLetters[IndexIn(UpperLetters, c)] ELSE c
\* unicode.ToUpper on one character (used to enumerate the inputs)
UpperChar(c) == IF Occurs(LowerLetters, c) THEN UpperLetters[IndexIn(LowerLetters, c)] ELSE c

\* strings.ToLower
ToLower(s) == [i \in 1..Len(s) |-> LowerChar(s[i])]
ToUpper(s) == [i \in 1..Len(s) |-> UpperChar(s[i])]

\* strings.TrimSpace: drop the leading and the trailing white space
TrimSpace(s) ==
    LET inner == {i \in 1..Len(s) : s[i] \notin SpaceChars}
    IN  IF inner = {} THEN <<>>
        ELSE LET lo == CHOOSE i \in inner : \A j \in inner : i <= j
                 hi == CHOOSE i \in inner : \A j \in inner : i >= j
             IN  SubSeq(s, lo, hi)

\* the constants of sampler_env.go
tracesSamplerKey == "OTEL_TRACES_SAMPLER"
tracesSamplerArgKey == "OTEL_TRACES_SAMPLER_ARG"
samplerAlwaysOn == <<"a","l","w","a","y","s","_","o","n">>
samplerAlwaysOff == <<"a","l","w","a","y","s","_","o","f","f">>
samplerTraceIDRatio == <<"t","r","a","c","e","i","d","r","a","t","i","o">>
samplerParentBasedAlwaysOn == <<"p","a","r","e","n","t","b","a","s","e","d","_">> \o samplerAlwaysOn
samplerParsedBasedAlwaysOff == <<"p","a","r","e","n","t","b","a","s","e","d","_">> \o samplerAlwaysOff
samplerParentBasedTraceIDRatio == <<"p","a","r","e","n","t","b","a","s","e","d","_">> \o samplerTraceIDRatio

(***************************************************************************)
(* Numbers: a float64 is a class (finite, NaN, infinite), a sign and, when *)
(* finite, the decimal m / 10^e with trailing zeros of the fraction        *)
(* removed, so that "0.5" and "0.50" denote one value.                     *)
(***************************************************************************)
RECURSIVE Pow10(_)
Pow10(n) == IF n = 0 THEN 1 ELSE 10 * Pow10(n - 1)

RECURSIVE Normalise(_, _)
Normalise(m, e) == IF e > 0 /\ m % 10 = 0 THEN Normalise(m \div 10, e - 1)
                   ELSE [m |-> m, e |-> e]

Finite(neg, m, e) ==
    LET n == Normalise(m, e)
    IN  [cls |-> "finite", neg |-> neg /\ n.m # 0, m |-> n.m, e |-> n.e]
NaN == [cls |-> "nan", neg |-> FALSE, m |-> 0, e |-> 0]
Inf(neg) == [cls |-> "inf", neg |-> neg, m |-> 0, e |-> 0]
One == Finite(FALSE, 1, 0)

\* v < 0.0 and v > 1.0 on float64 (every comparison with NaN is false)
LessThanZero(v) == \/ v.cls = "inf" /\ v.neg
                   \/ v.cls = "finite" /\ v.neg /\ v.m > 0
GreaterThanOne(v) == \/ v.cls = "inf" /\ ~v.neg
                     \/ v.cls = "finite" /\ ~v.neg /\ v.m > Pow10(v.e)

RECURSIVE DigitsValue(_)
DigitsValue(ds) == IF ds = <<>> THEN 0
                   ELSE 10 * DigitsValue(SubSeq(ds, 1, Len(ds) - 1))
                        + (IndexIn(DigitChars, ds[Len(ds)]) - 1)

\* strconv.ParseFloat(s, 64) on the decimal grammar: an optional sign, then
\* "inf", "infinity" or (unsigned) "nan" in any letter case, or digits with
\* at most one point and at least one digit. Exponents, hexadecimal floats and
\* digit separators are outside the input alphabet of this model.
ParseFloat(s) ==
    LET signed == Len(s) > 0 /\ s[1] \in {"+", "-"}
        neg == signed /\ s[1] = "-"
        body == IF signed THEN SubSeq(s, 2, Len(s)) ELSE s
        low == ToLower(body)
        dots == {i \in 1..Len(body) : body[i] = "."}
        digits == SelectSeq(body, LAMBDA c : c # ".")
        fail == [ok |-> FALSE, v |-> Finite(FALSE, 0, 0)]
    IN  IF low = <<"i","n","f">> \/ low = <<"i","n","f","i","n","i","t","y">>
        THEN [ok |-> TRUE, v |-> Inf(neg)]
        ELSE IF low = <<"n","a","n">>
        THEN IF signed THEN fail ELSE [ok |-> TRUE, v |-> NaN]
        ELSE IF /\ Cardinality(dots) <= 1
                /\ Len(digits) >= 1
                /\ \A i \in 1..Len(digits) : Occurs(DigitChars, digits[i])
        THEN [ok |-> TRUE,
              v |-> Finite(neg, DigitsValue(digits),
                           IF dots = {} THEN 0
                           ELSE Len(body) - (CHOOSE i \in dots : TRUE))]
        ELSE fail

(***************************************************************************)
(* The environment                                                         *)
(***************************************************************************)
Unset == [found |-> FALSE, val |-> <<>>]
Set(s) == [found |-> TRUE, val |-> s]

\* os.LookupEnv in environment e: the value and whether the variable is set
LookupEnv(e, key) == e[key]

(***************************************************************************)
(* Samplers and errors                                                     *)
(***************************************************************************)
NilSampler == [kind |-> "nil", ratio |-> One, parentBased |-> FALSE]
AlwaysSampleSampler == [kind |-> "AlwaysSample", ratio |-> One, parentBased |-> FALSE]
NeverSampleSampler == [kind |-> "NeverSample", ratio |-> One, parentBased |-> FALSE]
TraceIDRatioBased(v) == [kind |-> "TraceIDRatioBased", ratio |-> v, parentBased |-> FALSE]
ParentBased(root) == [root EXCEPT !.parentBased = TRUE]

NoError == [kind |-> "nil", text |-> <<>>]

\* errUnsupportedSampler that does not carry the selector
errUnsupportedSampler_Anonymous(s) == [kind |-> "errUnsupportedSampler", text |-> <<>>]

\* errUnsupportedSampler(s): Error() is "unsupported sampler: " followed by text
errUnsupportedSampler(s) == [kind |-> "errUnsupportedSampler", text |-> s]
errNegativeTraceIDRatio == [kind |-> "errNegativeTraceIDRatio", text |-> <<>>]
errGreaterThanOneTraceIDRatio == [kind |-> "errGreaterThanOneTraceIDRatio", text |-> <<>>]
samplerArgParseError == [kind |-> "samplerArgParseError", text |-> <<>>]

parseTraceIDRatio(arg) ==
    LET p == ParseFloat(arg)
    IN  IF ~p.ok THEN [sampler |-> TraceIDRatioBased(One), err |-> samplerArgParseError]
        ELSE IF LessThanZero(p.v)
        THEN [sampler |-> TraceIDRatioBased(One), err |-> errNegativeTraceIDRatio]
        ELSE IF GreaterThanOne(p.v)
        THEN [sampler |-> TraceIDRatioBased(One), err |-> errGreaterThanOneTraceIDRatio]
        ELSE [sampler |-> TraceIDRatioBased(p.v), err |-> NoError]

\* the switch of samplerFromEnv on the normalised selector
selectSampler(sampler, samplerArg, hasSamplerArg) ==
    IF sampler = samplerAlwaysOn
    THEN [sampler |-> AlwaysSampleSampler, err |-> NoError]
    ELSE IF sampler = samplerAlwaysOff
    THEN [sampler |-> NeverSampleSampler, err |-> NoError]
    ELSE IF sampler = samplerTraceIDRatio
    THEN IF ~hasSamplerArg
         THEN [sampler |-> TraceIDRatioBased(One), err |-> NoError]
         ELSE parseTraceIDRatio(samplerArg)
    ELSE IF sampler = samplerParentBasedAlwaysOn
    THEN [sampler |-> ParentBased(AlwaysSampleSampler), err |-> NoError]
    ELSE IF sampler = samplerParsedBasedAlwaysOff
    THEN [sampler |-> ParentBased(NeverSampleSampler), err |-> NoError]
    ELSE IF sampler = samplerParentBasedTraceIDRatio
    THEN IF ~hasSamplerArg
         THEN [sampler |-> ParentBased(TraceIDRatioBased(One)), err |-> NoError]
         ELSE LET r == parseTraceIDRatio(samplerArg)
              IN  [sampler |-> ParentBased(r.sampler), err |-> r.err]
    ELSE [sampler |-> NilSampler, err |-> errUnsupportedSampler(sampler)]

\* samplerFromEnv without the lower-casing of the selector
samplerFromEnv_CaseSensitive(e) ==
    LET s == LookupEnv(e, tracesSamplerKey)
        a == LookupEnv(e, tracesSamplerArgKey)
    IN  IF ~s.found THEN [sampler |-> NilSampler, err |-> NoError]
        ELSE selectSampler(TrimSpace(s.val), TrimSpace(a.val), a.found)

\* samplerFromEnv that reports a missing selector as an unsupported sampler
samplerFromEnv_UnsetIsError(e) ==
    LET s == LookupEnv(e, tracesSamplerKey)
        a == LookupEnv(e, tracesSamplerArgKey)
    IN  selectSampler(ToLower(TrimSpace(s.val)), TrimSpace(a.val), a.found)

\* samplerFromEnv in environment e: the sampler and the error it returns
samplerFromEnv(e) ==
    LET s == LookupEnv(e, tracesSamplerKey)
        a == LookupEnv(e, tracesSamplerArgKey)
    IN  IF ~s.found THEN [sampler |-> NilSampler, err |-> NoError]
        ELSE selectSampler(ToLower(TrimSpace(s.val)), TrimSpace(a.val), a.found)

\* sampleRate that requires the selector only
sampleRate_ArgOptional(e) ==
    IF ~LookupEnv(e, "OTEL_TRACES_SAMPLER").found THEN "OTEL_TRACES_SAMPLER not found"
    ELSE IF LookupEnv(e, "OTEL_TRACES_SAMPLER_ARG").found
            /\ ~ParseFloat(LookupEnv(e, "OTEL_TRACES_SAMPLER_ARG").val).ok
    THEN "failed to parse sample rate"
    ELSE "nil"

\* sampleRate that requires the argument only
sampleRate_SelectorOptional(e) ==
    IF ~LookupEnv(e, "OTEL_TRACES_SAMPLER_ARG").found
    THEN "OTEL_TRACES_SAMPLER_ARG not found"
    ELSE IF ~ParseFloat(LookupEnv(e, "OTEL_TRACES_SAMPLER_ARG").val).ok
    THEN "failed to parse sample rate"
    ELSE "nil"

\* sampleRate in environment e: the error it returns, "nil" when the variables
\* are set and valid
sampleRate(e) ==
    IF ~LookupEnv(e, "OTEL_TRACES_SAMPLER").found THEN "OTEL_TRACES_SAMPLER not found"
    ELSE IF ~LookupEnv(e, "OTEL_TRACES_SAMPLER_ARG").found
    THEN "OTEL_TRACES_SAMPLER_ARG not found"
    ELSE IF ~ParseFloat(LookupEnv(e, "OTEL_TRACES_SAMPLER_ARG").val).ok
    THEN "failed to parse sample rate"
    ELSE "nil"

(***************************************************************************)
(* The inputs: the values the two environment variables are drawn from     *)
(***************************************************************************)
Str_bogus == <<"b","o","g","u","s">>
Str_always_on_inner_space == <<"a","l","w","a","y","s"," ","o","n">>

SelectorBases == {samplerAlwaysOn, samplerAlwaysOff, samplerTraceIDRatio,
                  samplerParentBasedAlwaysOn, samplerParsedBasedAlwaysOff,
                  samplerParentBasedTraceIDRatio,
                  Str_bogus, Str_always_on_inner_space, <<>>}
Casings == {"asis", "upper", "title"}
LeftPads == {<<>>, <<" ">>}
RightPads == {<<>>, <<"\t", "\n">>}

ApplyCasing(s, casing) ==
    IF casing = "upper" THEN ToUpper(s)
    ELSE IF casing = "title" /\ Len(s) > 0
    THEN <<UpperChar(s[1])>> \o SubSeq(s, 2, Len(s))
    ELSE s

\* a selector as an operator may write it: a base token in some letter case,
\* surrounded by white space
Variant(base, casing, l, r) == l \o ApplyCasing(base, casing) \o r

SelectorInputs ==
    {Variant(b, c, l, r) : b \in SelectorBases, c \in Casings, l \in LeftPads, r \in RightPads}

ArgInputs == { <<"0",".","5">>, <<" ","0",".","5"," ">>, <<"0",".","5","0">>,
               <<"0",".","0","0","1">>, <<"0">>, <<"1">>, <<"1",".","0">>,
               <<"-","0",".","1">>, <<"1",".","5">>, <<"+","0",".","2","5">>,
               <<"a","b","c">>, <<>>, <<"N","a","N">>, <<"-","i","n","f">> }

EnvValues(inputs) == {Unset} \cup {Set(s) : s \in inputs}

(***************************************************************************)
(* Tracing activation (telemetry.go)                                       *)
(***************************************************************************)
\* overrideSampler: the override value wrapping the given sampler
overrideSampler(wrapped) == [wrapped |-> wrapped]

NoopShutdown == [kind |-> "noop", tp |-> 0, exp |-> 0]
RealShutdown(tp, exp) == [kind |-> "real", tp |-> tp, exp |-> exp]
CompositePropagator == "TraceContext+Baggage"

\* shutdownLog holds, per call of a shutdown function, the Shutdown calls it
\* made with their outcome (ok: no error) and then its own return (ok: nil)
Event(ev, id, ok) == [ev |-> ev, id |-> id, ok |-> ok]
ClosureCalls == Len(SelectSeq(shutdownLog, LAMBDA e : e.ev = "return"))

Frame_Requests == UNCHANGED <<ctxs, rules, reqs>>

\* EnableOTELTracing; expOk: whether otlptrace.New succeeds
EnableOTELTracing(expOk) ==
    /\ Len(closures) < MaxEnableCalls
    /\ LET err == sampleRate(env)
           r == samplerFromEnv(env)
           newExp == Len(exps) + 1
           newTP == Len(tps) + 1
       IN  IF err # "nil"
           THEN /\ closures' = Append(closures, NoopShutdown)
                /\ UNCHANGED <<exps, tps, globalTP, globalProp>>
           ELSE IF ~expOk
           THEN /\ closures' = Append(closures, NoopShutdown)
                /\ UNCHANGED <<exps, tps, globalTP, globalProp>>
           ELSE IF r.err.kind # "nil"
           THEN /\ exps' = Append(exps, [down |-> FALSE])
                /\ closures' = Append(closures, NoopShutdown)
                /\ UNCHANGED <<tps, globalTP, globalProp>>
           ELSE /\ exps' = Append(exps, [down |-> FALSE])
                /\ tps' = Append(tps, [sampler |-> overrideSampler(r.sampler),
                                       exp |-> newExp, down |-> FALSE])
                /\ globalTP' = newTP
                /\ globalProp' = CompositePropagator
                /\ closures' = Append(closures, RealShutdown(newTP, newExp))
    /\ UNCHANGED <<env, nanConv, shutdownLog, sfe>>
    /\ Frame_Requests

\* a shutdown function that returns the tracer provider's error without
\* shutting the exporter down
Shutdown_StopsOnProviderError(i, tpOk, expOk) ==
    /\ i \in 1..Len(closures)
    /\ ClosureCalls < MaxShutdownCalls
    /\ LET c == closures[i]
       IN  IF c.kind = "noop"
           THEN /\ shutdownLog' = Append(shutdownLog, Event("return", i, TRUE))
                /\ UNCHANGED <<tps, exps>>
           ELSE IF ~tpOk
           THEN /\ shutdownLog' = shutdownLog \o
                       << Event("tp.Shutdown", c.tp, FALSE), Event("return", i, FALSE) >>
                /\ tps' = [tps EXCEPT ![c.tp].down = TRUE]
                /\ UNCHANGED exps
           ELSE /\ shutdownLog' = shutdownLog \o
                       << Event("tp.Shutdown", c.tp, tpOk),
                          Event("exp.Shutdown", c.exp, expOk),
                          Event("return", i, expOk) >>
                /\ tps' = [tps EXCEPT ![c.tp].down = TRUE]
                /\ exps' = [exps EXCEPT ![c.exp].down = TRUE]
    /\ UNCHANGED <<env, nanConv, globalTP, globalProp, closures, sfe>>
    /\ Frame_Requests

\* a call of the i-th shutdown function EnableOTELTracing returned;
\* tpOk, expOk: whether tp.Shutdown and exp.Shutdown succeed
Shutdown(i, tpOk, expOk) ==
    /\ i \in 1..Len(closures)
    /\ ClosureCalls < MaxShutdownCalls
    /\ LET c == closures[i]
       IN  IF c.kind = "noop"
           THEN /\ shutdownLog' = Append(shutdownLog, Event("return", i, TRUE))
                /\ UNCHANGED <<tps, exps>>
           ELSE /\ shutdownLog' = shutdownLog \o
                       << Event("tp.Shutdown", c.tp, tpOk),
                          Event("exp.Shutdown", c.exp, expOk),
                          Event("return", i, expOk) >>
                /\ tps' = [tps EXCEPT ![c.tp].down = TRUE]
                /\ exps' = [exps EXCEPT ![c.exp].down = TRUE]
    /\ UNCHANGED <<env, nanConv, globalTP, globalProp, closures, sfe>>
    /\ Frame_Requests

\* a direct call of samplerFromEnv
CallSamplerFromEnv ==
    /\ ~sfe.called
    /\ sfe' = [called |-> TRUE, sampler |-> samplerFromEnv(env).sampler,
                err |-> samplerFromEnv(env).err]
    /\ UNCHANGED <<env, nanConv, exps, tps, globalTP, globalProp, closures, shutdownLog>>
    /\ Frame_Requests

(***************************************************************************)
(* Contexts (context.Context): context 0 is context.Background(); every    *)
(* other context is a heap node holding one key, one value and its parent. *)
(* The heap maps the addresses in use to their nodes; each request's       *)
(* contexts are allocated in an address range of its own. A value is       *)
(* tagged with its dynamic type, as an interface value is.                 *)
(***************************************************************************)
alwaysSample == "overrideType(always-sample)"
stringKey == "string(always-sample)"
currentSpanKey == "trace.currentSpanKey"

NilV == [typ |-> "nil", b |-> FALSE, sampled |-> FALSE, remote |-> FALSE, ts |-> ""]
BoolV(b) == [typ |-> "bool", b |-> b, sampled |-> FALSE, remote |-> FALSE, ts |-> ""]
StringV == [typ |-> "string", b |-> TRUE, sampled |-> FALSE, remote |-> FALSE, ts |-> ""]
SpanV(sampled, remote, ts) ==
    [typ |-> "SpanContext", b |-> FALSE, sampled |-> sampled, remote |-> remote, ts |-> ts]

\* ctx.Value(key) where the whole heap is searched, not the ancestors of ctx
ValueIn_AnyContext(h, c, k) ==
    LET holders == {a \in DOMAIN h : h[a].key = k}
    IN  IF holders = {} THEN NilV
        ELSE h[CHOOSE a \in holders : \A b \in holders : b <= a].val

\* ctx.Value(key) in heap h: the value of the nearest ancestor holding the key
RECURSIVE ValueIn(_, _, _)
ValueIn(h, c, k) ==
    IF c = 0 THEN NilV
    ELSE IF h[c].key = k THEN h[c].val
    ELSE ValueIn(h, h[c].parent, k)

Value(c, k) == ValueIn(ctxs, c, k)

\* context.WithValue: the heap with the derived context allocated at address a
WithValue(h, a, parent, k, v) == (a :> [parent |-> parent, key |-> k, val |-> v]) @@ h

\* AlwaysSample that also stores the flag in the context it was given
AlwaysSample_InPlace(h, a, ctx) ==
    IF ctx = 0 THEN WithValue(h, a, ctx, alwaysSample, BoolV(TRUE))
    ELSE WithValue([h EXCEPT ![ctx].key = alwaysSample, ![ctx].val = BoolV(TRUE)],
                   a, ctx, alwaysSample, BoolV(TRUE))

\* AlwaysSample that stores the flag under a string key of the same text
AlwaysSample_StringKey(h, a, ctx) == WithValue(h, a, ctx, stringKey, BoolV(TRUE))

\* AlwaysSample(ctx): the heap after the call, the derived context being at address a
AlwaysSample(h, a, ctx) == WithValue(h, a, ctx, alwaysSample, BoolV(TRUE))

(***************************************************************************)
(* Sampling decisions                                                      *)
(***************************************************************************)
\* trace.SpanContextFromContext
SpanContextFromContext(c) ==
    LET v == Value(c, currentSpanKey)
    IN  [valid |-> v.typ = "SpanContext", sampled |-> v.sampled,
         remote |-> v.remote, ts |-> v.ts]

Result(decision, p) ==
    [Decision |-> decision, Tracestate |-> SpanContextFromContext(p.ParentContext).ts]

\* the trace ids: the lower and the upper half of the trace-id space
TraceIDs == {0, 1}

\* whether a ratio sampler built with TraceIDRatioBased(v) samples trace id x:
\* the id's position in the trace-id space is below the ratio
RatioSamples(v, x) ==
    IF v.cls = "nan" THEN nanConv = "max"
    ELSE IF v.cls = "inf" THEN ~v.neg
    ELSE IF v.neg THEN FALSE
    ELSE x * Pow10(v.e) < v.m * Cardinality(TraceIDs)

\* sdktrace.Sampler.ShouldSample of the samplers samplerFromEnv builds; a nil
\* sampler has no method to call
ShouldSample(s, p) ==
    LET psc == SpanContextFromContext(p.ParentContext)
        root == IF s.kind = "AlwaysSample" THEN "RecordAndSample"
                ELSE IF s.kind = "NeverSample" THEN "Drop"
                ELSE IF RatioSamples(s.ratio, p.TraceID) THEN "RecordAndSample"
                ELSE "Drop"
    IN  IF s.kind = "nil" THEN [Decision |-> "panic", Tracestate |-> ""]
        ELSE IF s.parentBased /\ psc.valid
        THEN Result(IF psc.sampled THEN "RecordAndSample" ELSE "Drop", p)
        ELSE Result(root, p)

\* p.ParentContext.Value(alwaysSample) == true
ForceFlag(p) ==
    LET v == Value(p.ParentContext, alwaysSample)
    IN  v.typ = "bool" /\ v.b

\* a call of a delegate's ShouldSample by the override sampler: which
\* delegate, and the parameters it was given
Invocation(delegate, p) == [delegate |-> delegate, p |-> p]

\* override.ShouldSample that forces whenever the key is present
override_ShouldSample_AnyValue(os, p) ==
    IF Value(p.ParentContext, alwaysSample).typ # "nil"
    THEN [forced |-> TRUE, result |-> ShouldSample(AlwaysSampleSampler, p),
          calls |-> <<Invocation("AlwaysSample", p)>>]
    ELSE [forced |-> FALSE, result |-> ShouldSample(os.wrapped, p),
          calls |-> <<Invocation("wrapped", p)>>]

\* override.ShouldSample that always delegates
override_ShouldSample_NoOverride(os, p) ==
    [forced |-> FALSE, result |-> ShouldSample(os.wrapped, p),
     calls |-> <<Invocation("wrapped", p)>>]

\* override.ShouldSample that drops the trace state of the delegate's result
override_ShouldSample_NoTracestate(os, p) ==
    IF ForceFlag(p)
    THEN [forced |-> TRUE, result |-> ShouldSample(AlwaysSampleSampler, p),
          calls |-> <<Invocation("AlwaysSample", p)>>]
    ELSE [forced |-> FALSE,
          result |-> [ShouldSample(os.wrapped, p) EXCEPT !.Tracestate = ""],
          calls |-> <<Invocation("wrapped", p)>>]

\* override.ShouldSample that asks the wrapped sampler first and replaces its
\* result when the flag is set
override_ShouldSample_ConsultsBoth(os, p) ==
    IF ForceFlag(p)
    THEN [forced |-> TRUE, result |-> ShouldSample(AlwaysSampleSampler, p),
          calls |-> <<Invocation("wrapped", p), Invocation("AlwaysSample", p)>>]
    ELSE [forced |-> FALSE, result |-> ShouldSample(os.wrapped, p),
          calls |-> <<Invocation("wrapped", p)>>]

\* override.ShouldSample: the branch taken, the result returned and the
\* ShouldSample calls made on the way
override_ShouldSample(os, p) ==
    IF ForceFlag(p)
    THEN [forced |-> TRUE, result |-> ShouldSample(AlwaysSampleSampler, p),
          calls |-> <<Invocation("AlwaysSample", p)>>]
    ELSE [forced |-> FALSE, result |-> ShouldSample(os.wrapped, p),
          calls |-> <<Invocation("wrapped", p)>>]

(***************************************************************************)
(* Requests and the handler decorator                                      *)
(***************************************************************************)
Header(traceme, xdebug) == [traceme |-> traceme, xdebug |-> xdebug]
Rule(name, value) == [name |-> name, value |-> value]

\* a header-equality rule: the named header's value equals the literal exactly
RuleMatches(rule, hdr) == hdr[rule.name] = rule.value

AnyRuleMatches(rs, hdr) == \E i \in 1..Len(rs) : RuleMatches(rs[i], hdr)

RuleSets == { <<>>,
              <<Rule("traceme", "true")>>,
              <<Rule("xdebug", "1"), Rule("traceme", "true")>> }

\* the inbound requests: method, body, headers and the span context a
\* propagator extracted from the request, if any
Inbound == { [method |-> "GET", body |-> "", hdr |-> Header("true", ""), parent |-> NilV],
             [method |-> "GET", body |-> "", hdr |-> Header("", ""),
              parent |-> SpanV(TRUE, TRUE, "vendor=1")],
             [method |-> "POST", body |-> "payload", hdr |-> Header("True", "1"),
              parent |-> SpanV(FALSE, TRUE, "vendor=2")] }

NoSeen == [calls |-> 0, method |-> "", body |-> "", hdr |-> Header("", ""), ctx |-> 0]
NoSpan == [started |-> FALSE, consulted |-> FALSE, forced |-> FALSE,
           sampler |-> overrideSampler(NilSampler), ctx |-> 0, TraceID |-> 0,
           result |-> [Decision |-> "none", Tracestate |-> ""], calls |-> <<>>]
IdleReq == [pc |-> "idle", method |-> "", body |-> "", hdr |-> Header("", ""),
            ctx |-> 0, seen |-> NoSeen, cur |-> 0, derived |-> 0,
            annotated |-> FALSE, span |-> NoSpan]

Reqs == {"A", "B"}

\* the address of the next context allocated for request r
ArenaSize == 2 + MaxDerive
Arena(r) == IF r = "A" THEN 1..ArenaSize ELSE (ArenaSize + 1)..(2 * ArenaSize)
NewAddr(r) == CHOOSE a \in Arena(r) \ DOMAIN ctxs : \A b \in Arena(r) \ DOMAIN ctxs : a <= b
Frame_Config == UNCHANGED <<env, nanConv, exps, tps, globalTP, globalProp,
                            closures, shutdownLog, sfe, rules>>

\* request r arrives at the server, which gives it a context
Arrive(r, in) ==
    /\ reqs[r].pc = "idle"
    /\ IF in.parent.typ = "nil"
       THEN /\ ctxs' = ctxs
            /\ reqs' = [reqs EXCEPT ![r] = [IdleReq EXCEPT !.pc = "arrived",
                            !.method = in.method, !.body = in.body,
                            !.hdr = in.hdr, !.ctx = 0]]
       ELSE /\ ctxs' = WithValue(ctxs, NewAddr(r), 0, currentSpanKey, in.parent)
            /\ reqs' = [reqs EXCEPT ![r] = [IdleReq EXCEPT !.pc = "arrived",
                            !.method = in.method, !.body = in.body,
                            !.hdr = in.hdr, !.ctx = NewAddr(r)]]
    /\ Frame_Config

\* a handler that consumes the headers its rules matched on
ServeHTTP_ConsumesHeader(r) ==
    /\ reqs[r].pc = "arrived"
    /\ LET q == reqs[r]
           matched == AnyRuleMatches(rules, q.hdr)
           hdr == IF matched THEN Header("", "") ELSE q.hdr
       IN  /\ ctxs' = IF matched THEN AlwaysSample(ctxs, NewAddr(r), q.ctx) ELSE ctxs
           /\ LET c == IF matched THEN NewAddr(r) ELSE q.ctx
              IN  reqs' = [reqs EXCEPT ![r].pc = "served",
                               ![r].seen = [calls |-> q.seen.calls + 1, method |-> q.method,
                                            body |-> q.body, hdr |-> hdr, ctx |-> c],
                               ![r].cur = c,
                               ![r].annotated = matched]
    /\ Frame_Config

\* the handler NewHandler returns, serving request r: the rules are evaluated,
\* the context is annotated when one matches, the downstream handler is called
ServeHTTP(r) ==
    /\ reqs[r].pc = "arrived"
    /\ LET q == reqs[r]
           matched == AnyRuleMatches(rules, q.hdr)
       IN  /\ ctxs' = IF matched THEN AlwaysSample(ctxs, NewAddr(r), q.ctx) ELSE ctxs
           /\ LET c == IF matched THEN NewAddr(r) ELSE q.ctx
              IN  reqs' = [reqs EXCEPT ![r].pc = "served",
                               ![r].seen = [calls |-> q.seen.calls + 1, method |-> q.method,
                                            body |-> q.body, hdr |-> q.hdr, ctx |-> c],
                               ![r].cur = c,
                               ![r].annotated = matched]
    /\ Frame_Config

\* the downstream handler of request r forces sampling at a call site
Annotate(r) ==
    /\ reqs[r].pc = "served"
    /\ reqs[r].derived < MaxDerive
    /\ ctxs' = AlwaysSample(ctxs, NewAddr(r), reqs[r].cur)
    /\ reqs' = [reqs EXCEPT ![r].cur = NewAddr(r), ![r].annotated = TRUE,
                            ![r].derived = @ + 1]
    /\ Frame_Config

\* the keys and values code of the package can store with context.WithValue,
\* other than the flag AlwaysSample stores
StoredPairs == { <<alwaysSample, BoolV(FALSE)>>, <<alwaysSample, StringV>> }

\* the downstream handler of request r derives a context with context.WithValue
DeriveWithValue(r, kv) ==
    /\ reqs[r].pc = "served"
    /\ reqs[r].derived < MaxDerive
    /\ ctxs' = WithValue(ctxs, NewAddr(r), reqs[r].cur, kv[1], kv[2])
    /\ reqs' = [reqs EXCEPT ![r].cur = NewAddr(r), ![r].derived = @ + 1]
    /\ Frame_Config

\* the downstream handler of request r starts a span with the global tracer
\* provider; the no-op default provider consults no sampler
StartSpan(r, x) ==
    /\ reqs[r].pc = "served"
    /\ LET q == reqs[r]
           p == [ParentContext |-> q.cur, TraceID |-> x]
       IN  IF globalTP = 0
           THEN reqs' = [reqs EXCEPT ![r].pc = "done",
                             ![r].span = [NoSpan EXCEPT !.started = TRUE, !.ctx = q.cur,
                                                        !.TraceID = x]]
           ELSE LET d == override_ShouldSample(tps[globalTP].sampler, p)
                IN  reqs' = [reqs EXCEPT ![r].pc = "done",
                                 ![r].span = [started |-> TRUE, consulted |-> TRUE,
                                              forced |-> d.forced,
                                              sampler |-> tps[globalTP].sampler,
                                              ctx |-> q.cur,
                                              TraceID |-> x, result |-> d.result,
                                              calls |-> d.calls]]
    /\ UNCHANGED ctxs
    /\ Frame_Config

(***************************************************************************)
(* Specifications                                                          *)
(***************************************************************************)
InitCommon ==
    /\ exps = <<>>
    /\ tps = <<>>
    /\ globalTP = 0
    /\ globalProp = "none"
    /\ closures = <<>>
    /\ shutdownLog = <<>>
    /\ sfe = [called |-> FALSE, sampler |-> NilSampler, err |-> NoError]
    /\ ctxs = << >>
    /\ reqs = [r \in Reqs |-> IdleReq]

MkEnv(s, a) == (tracesSamplerKey :> s) @@ (tracesSamplerArgKey :> a)

\* sampler construction: every bounded value of the two environment
\* variables, then a direct call of samplerFromEnv
InitEnv ==
    /\ InitCommon
    /\ rules = <<>>
    /\ nanConv = "zero"
    /\ \E s \in EnvValues(SelectorInputs), a \in EnvValues(ArgInputs) : env = MkEnv(s, a)

NextEnv == CallSamplerFromEnv

SpecEnv == InitEnv /\ [][NextEnv]_vars

\* activation and shutdown: the selector unset, each token, a token in upper
\* case with white space around it and an unknown one, with every bounded
\* argument; EnableOTELTracing and the functions it returned are called in
\* any order
ActivationSelectors ==
    {samplerAlwaysOn, samplerAlwaysOff, samplerTraceIDRatio,
     samplerParentBasedAlwaysOn, samplerParsedBasedAlwaysOff,
     samplerParentBasedTraceIDRatio, Str_bogus,
     Variant(samplerTraceIDRatio, "upper", <<" ">>, <<>>)}

InitActivation ==
    /\ InitCommon
    /\ rules = <<>>
    /\ nanConv = "zero"
    /\ \E s \in EnvValues(ActivationSelectors), a \in EnvValues(ArgInputs) : env = MkEnv(s, a)

NextActivation ==
    \/ \E expOk \in BOOLEAN : EnableOTELTracing(expOk)
    \/ \E i \in 1..MaxEnableCalls, tpOk \in BOOLEAN, expOk \in BOOLEAN : Shutdown(i, tpOk, expOk)

SpecActivation == InitActivation /\ [][NextActivation]_vars

\* requests: tracing is activated with an exporter that can be created, from
\* an environment that selects a dropping, a ratio or a parent-based sampler,
\* while two requests are served concurrently
CoreEnvs ==
    { MkEnv(Set(samplerTraceIDRatio), Set(<<"N","a","N">>)),
      MkEnv(Set(ToUpper(samplerParsedBasedAlwaysOff)), Set(<<"1">>)),
      MkEnv(Set(samplerParentBasedTraceIDRatio), Set(<<"0",".","5","0">>)) }

Init ==
    /\ InitCommon
    /\ rules \in RuleSets
    /\ env \in CoreEnvs
    /\ nanConv \in (IF samplerFromEnv(env).sampler.ratio.cls = "nan"
                    THEN {"zero", "max"} ELSE {"zero"})

Next ==
    \/ EnableOTELTracing(TRUE)
    \/ \E r \in Reqs, in \in Inbound : Arrive(r, in)
    \/ \E r \in Reqs : ServeHTTP(r)
    \/ \E r \in Reqs : Annotate(r)
    \/ \E r \in Reqs, kv \in StoredPairs : DeriveWithValue(r, kv)
    \/ \E r \in Reqs, x \in TraceIDs : StartSpan(r, x)

Spec == Init /\ [][Next]_vars

(***************************************************************************)
(* Properties of the override sampler                                      *)
(***************************************************************************)
SpanParams(q) == [ParentContext |-> q.span.ctx, TraceID |-> q.span.TraceID]
FlagOf(q) == Value(q.span.ctx, alwaysSample)

\* C1: a span whose parent context carries the force-sample flag with value
\* true gets the record-and-sample decision, whatever sampler is wrapped.
C1_ForcedIsSampled ==
    \A r \in Reqs :
        reqs[r].span.consulted /\ FlagOf(reqs[r]) = BoolV(TRUE)
            => reqs[r].span.result.Decision = "RecordAndSample"

\* a forced span was sampled although the wrapped sampler drops it
C1_Witness ==
    \E r \in Reqs :
        /\ reqs[r].span.consulted
        /\ FlagOf(reqs[r]) = BoolV(TRUE)
        /\ ShouldSample(reqs[r].span.sampler.wrapped, SpanParams(reqs[r])).Decision = "Drop"
        /\ reqs[r].span.result.Decision = "RecordAndSample"

\* C2: when the parent context does not carry the force-sample flag, the
\* override sampler returns exactly the wrapped sampler's result for the same
\* parameters: the same decision and the same trace state.
C2_PureDelegation ==
    \A r \in Reqs :
        reqs[r].span.consulted /\ FlagOf(reqs[r]) = NilV
            => reqs[r].span.result
                 = ShouldSample(reqs[r].span.sampler.wrapped, SpanParams(reqs[r]))

\* an unflagged span was dropped by the wrapped sampler, its parent's trace
\* state being passed on
C2_Witness ==
    \E r \in Reqs :
        /\ reqs[r].span.consulted
        /\ FlagOf(reqs[r]) = NilV
        /\ reqs[r].span.result = [Decision |-> "Drop", Tracestate |-> "vendor=2"]

\* C3: a force-sample key holding false or a value that is not a boolean is
\* treated as an absent key: the call does not fail, takes the delegating
\* branch and returns the wrapped sampler's result.
C3_FlagLookupTotal ==
    \A r \in Reqs :
        reqs[r].span.consulted /\ FlagOf(reqs[r]) \notin {NilV, BoolV(TRUE)}
            => /\ ~reqs[r].span.forced
               /\ reqs[r].span.result.Decision # "panic"
               /\ reqs[r].span.result
                    = ShouldSample(reqs[r].span.sampler.wrapped, SpanParams(reqs[r]))

\* a span whose key held a string was decided by the wrapped sampler, which
\* dropped it, and so was a span whose key held false
C3_Witness ==
    /\ \E r \in Reqs :
        /\ reqs[r].span.consulted
        /\ FlagOf(reqs[r]) = StringV
        /\ reqs[r].span.result.Decision = "Drop"
    /\ \E r \in Reqs :
        /\ reqs[r].span.consulted
        /\ FlagOf(reqs[r]) = BoolV(FALSE)
        /\ reqs[r].span.result.Decision = "Drop"

(***************************************************************************)
(* Properties of the context annotation                                    *)
(***************************************************************************)
ContextKeys == {alwaysSample, stringKey, currentSpanKey}

\* AlwaysSample is called for request r in this step: by the downstream
\* handler, or by the handler decorator when a rule matches
AlwaysSampleStep(r) ==
    \/ Annotate(r)
    \/ ServeHTTP(r) /\ AnyRuleMatches(rules, reqs[r].hdr)

\* the context request r is in
CurrentContext(q) == IF q.pc = "arrived" THEN q.ctx ELSE q.cur

\* C4: AlwaysSample(ctx) returns a new context in which the force-sample key
\* yields true; the input context and every other existing context are left
\* as they were, and every other key resolves in the derived context as it
\* does in the input context.
C4_AnnotationDerives ==
    [][\A r \in Reqs :
          AlwaysSampleStep(r) =>
            LET c == CurrentContext(reqs[r])
                d == CurrentContext(reqs'[r])
            IN  /\ d \notin {0} \cup DOMAIN ctxs
                /\ d \in DOMAIN ctxs'
                /\ ValueIn(ctxs', d, alwaysSample) = BoolV(TRUE)
                /\ \A a \in DOMAIN ctxs : ctxs'[a] = ctxs[a]
                /\ \A k \in ContextKeys : ValueIn(ctxs', c, k) = ValueIn(ctxs, c, k)
                /\ \A k \in ContextKeys \ {alwaysSample} :
                      ValueIn(ctxs', d, k) = ValueIn(ctxs', c, k)]_vars

\* a context holding a span context was annotated: the derived context
\* yields true and the same span context, the input context still yields nil
C4_Witness ==
    \E d \in DOMAIN ctxs :
        /\ ctxs[d].key = alwaysSample /\ ctxs[d].val = BoolV(TRUE)
        /\ ctxs[d].parent # 0
        /\ Value(ctxs[d].parent, alwaysSample) = NilV
        /\ Value(d, alwaysSample) = BoolV(TRUE)
        /\ Value(d, currentSpanKey) = SpanV(FALSE, TRUE, "vendor=2")

(***************************************************************************)
(* Properties of the handler decorator                                     *)
(***************************************************************************)
SomeRuleMatches(q) == \E i \in DOMAIN rules : q.hdr[rules[i].name] = rules[i].value

\* C5: the downstream handler is invoked exactly once per request served, with
\* a context that carries the force-sample flag if some configured rule
\* matches the request and with a context that does not carry it otherwise
\* (also when no rule is configured); before the request is served the
\* downstream handler has not run.
C5_HandlerAnnotates ==
    \A r \in Reqs :
        LET q == reqs[r]
        IN  /\ q.pc \in {"idle", "arrived"} => q.seen.calls = 0
            /\ q.pc \in {"served", "done"} =>
                 /\ q.seen.calls = 1
                 /\ SomeRuleMatches(q) => Value(q.seen.ctx, alwaysSample) = BoolV(TRUE)
                 /\ ~SomeRuleMatches(q) =>
                        /\ Value(q.seen.ctx, alwaysSample) = NilV
                        /\ q.seen.ctx = q.ctx

\* with two rules configured, one request matched the second rule only and
\* reached the downstream handler annotated, another matched none and reached
\* it unannotated
C5_Witness ==
    /\ Len(rules) = 2
    /\ \E r \in Reqs :
        /\ reqs[r].pc = "served"
        /\ ~RuleMatches(rules[1], reqs[r].hdr) /\ RuleMatches(rules[2], reqs[r].hdr)
        /\ Value(reqs[r].seen.ctx, alwaysSample) = BoolV(TRUE)
    /\ \E r \in Reqs :
        /\ reqs[r].pc = "served"
        /\ ~SomeRuleMatches(reqs[r])
        /\ Value(reqs[r].seen.ctx, alwaysSample) = NilV

\* C6: the method, the body and the headers the downstream handler observes
\* are those of the inbound request, whether or not a rule matched, and the
\* inbound request itself keeps them; only the context may differ.
C6_RequestUntouched ==
    [][\A r \in Reqs :
          reqs'[r].seen.calls > reqs[r].seen.calls =>
            /\ reqs'[r].seen.method = reqs[r].method
            /\ reqs'[r].seen.body = reqs[r].body
            /\ reqs'[r].seen.hdr = reqs[r].hdr
            /\ reqs'[r].method = reqs[r].method
            /\ reqs'[r].body = reqs[r].body
            /\ reqs'[r].hdr = reqs[r].hdr]_vars

\* a POST with a body and headers was served with a matching rule, a GET
\* without one
C6_Witness ==
    /\ \E r \in Reqs :
        /\ reqs[r].seen.calls = 1 /\ SomeRuleMatches(reqs[r])
        /\ reqs[r].seen.method = "POST" /\ reqs[r].seen.body = "payload"
        /\ reqs[r].seen.hdr = Header("True", "1")
        /\ reqs[r].seen.ctx # reqs[r].ctx
    /\ \E r \in Reqs :
        /\ reqs[r].seen.calls = 1 /\ ~SomeRuleMatches(reqs[r])
        /\ reqs[r].seen.method = "GET"

(***************************************************************************)
(* Concurrent requests                                                     *)
(***************************************************************************)
\* the contexts c descends from, c included
RECURSIVE Ancestors(_, _)
Ancestors(h, c) == IF c = 0 THEN {} ELSE {c} \cup Ancestors(h, h[c].parent)

\* the span of request r was started from a context that descends from an
\* annotation made for request r itself
OwnAnnotation(h, r, c) ==
    \E a \in Ancestors(h, c) :
        a \in Arena(r) /\ h[a].key = alwaysSample /\ h[a].val = BoolV(TRUE)

\* C7: in every interleaving of the requests sharing the override sampler, a
\* span is forced only if the context it was started from descends from an
\* annotation made for its own request, and no step of a request changes the
\* sampler of a tracer provider.
C7_NoCrossRequestForcing ==
    [][/\ \A i \in DOMAIN tps : tps'[i].sampler = tps[i].sampler
       /\ \A r \in Reqs :
            reqs'[r].span.forced => OwnAnnotation(ctxs', r, reqs'[r].span.ctx)]_vars

\* request A was annotated and forced while request B, not annotated, was
\* decided by the wrapped sampler and dropped after A's annotation existed
C7_Witness ==
    /\ reqs["A"].span.forced
    /\ reqs["B"].span.consulted /\ ~reqs["B"].span.forced
    /\ reqs["B"].span.result.Decision = "Drop"
    /\ \E a \in Arena("A") \cap DOMAIN ctxs : ctxs[a].key = alwaysSample
    /\ \A b \in Arena("B") \cap DOMAIN ctxs : ctxs[b].key # alwaysSample

\* C14: every ShouldSample call on the override sampler consults exactly one
\* delegate: with the flag present and true the wrapped sampler is not called
\* and the result is AlwaysSample's for the same parameters; otherwise the
\* wrapped sampler is called exactly once, with the parameters unmodified, and
\* AlwaysSample is not consulted.
C14_ExactlyOneDelegate ==
    \A r \in Reqs :
        reqs[r].span.consulted =>
            LET q == reqs[r]
                p == SpanParams(q)
            IN  IF FlagOf(q) = BoolV(TRUE)
                THEN /\ q.span.calls = <<Invocation("AlwaysSample", p)>>
                     /\ q.span.result = ShouldSample(AlwaysSampleSampler, p)
                ELSE /\ q.span.calls = <<Invocation("wrapped", p)>>
                     /\ q.span.result = ShouldSample(q.span.sampler.wrapped, p)

\* a forced span and an unforced one were started under a wrapped sampler
\* that drops: the forced one consulted AlwaysSample only and is sampled, the
\* other consulted the wrapped sampler only and is dropped
C14_Witness ==
    \E r, t \in Reqs :
        /\ reqs[r].span.consulted /\ reqs[t].span.consulted
        /\ FlagOf(reqs[r]) = BoolV(TRUE)
        /\ reqs[r].span.calls = <<Invocation("AlwaysSample", SpanParams(reqs[r]))>>
        /\ reqs[r].span.result.Decision = "RecordAndSample"
        /\ ShouldSample(reqs[r].span.sampler.wrapped, SpanParams(reqs[r])).Decision = "Drop"
        /\ FlagOf(reqs[t]) = BoolV(FALSE)
        /\ reqs[t].span.calls = <<Invocation("wrapped", SpanParams(reqs[t]))>>
        /\ reqs[t].span.result.Decision = "Drop"

(***************************************************************************)
(* Properties of the configuration layer                                   *)
(***************************************************************************)
MissingEnv == ~env[tracesSamplerKey].found \/ ~env[tracesSamplerArgKey].found

\* C8: with OTEL_TRACES_SAMPLER or OTEL_TRACES_SAMPLER_ARG unset,
\* EnableOTELTracing returns a shutdown function that does nothing and
\* returns nil, creates no exporter and no tracer provider and leaves the
\* global tracer provider and the global propagator as they were.
C8_DisabledWhenEnvMissing ==
    [][MissingEnv =>
        /\ Len(closures') = Len(closures) + 1 =>
              /\ closures'[Len(closures')] = NoopShutdown
              /\ UNCHANGED <<globalTP, globalProp, exps, tps>>
        /\ \A i \in 1..Len(closures) :
              shutdownLog' # shutdownLog /\ shutdownLog'[Len(shutdownLog')].id = i =>
                /\ shutdownLog' = Append(shutdownLog, Event("return", i, TRUE))
                /\ UNCHANGED <<globalTP, globalProp, exps, tps>>]_vars

\* the selector was set, the argument was not; EnableOTELTracing returned and
\* the function it returned was called
C8_Witness ==
    /\ env[tracesSamplerKey] = Set(samplerAlwaysOn)
    /\ ~env[tracesSamplerArgKey].found
    /\ Len(closures) = 1
    /\ shutdownLog = <<Event("return", 1, TRUE)>>
    /\ globalTP = 0 /\ exps = <<>>

\* C9: with OTEL_TRACES_SAMPLER unset, samplerFromEnv returns no sampler and
\* no error, whatever OTEL_TRACES_SAMPLER_ARG holds.
C9_UnsetSelectorIsNotConfigured ==
    sfe.called /\ ~env[tracesSamplerKey].found
        => sfe.sampler = NilSampler /\ sfe.err = NoError

\* samplerFromEnv was called with the selector unset and an argument that is
\* not a number
C9_Witness ==
    /\ sfe.called
    /\ ~env[tracesSamplerKey].found
    /\ env[tracesSamplerArgKey] = Set(<<"a","b","c">>)
    /\ sfe.sampler.kind = "nil"

Recognized == {samplerAlwaysOn, samplerAlwaysOff, samplerTraceIDRatio,
               samplerParentBasedAlwaysOn, samplerParsedBasedAlwaysOff,
               samplerParentBasedTraceIDRatio}

\* the sampler kind the documentation of OTEL_TRACES_SAMPLER gives each token
ExpectedKind(b) ==
    CASE b = samplerAlwaysOn -> [kind |-> "AlwaysSample", parentBased |-> FALSE]
      [] b = samplerAlwaysOff -> [kind |-> "NeverSample", parentBased |-> FALSE]
      [] b = samplerTraceIDRatio -> [kind |-> "TraceIDRatioBased", parentBased |-> FALSE]
      [] b = samplerParentBasedAlwaysOn -> [kind |-> "AlwaysSample", parentBased |-> TRUE]
      [] b = samplerParsedBasedAlwaysOff -> [kind |-> "NeverSample", parentBased |-> TRUE]
      [] b = samplerParentBasedTraceIDRatio ->
            [kind |-> "TraceIDRatioBased", parentBased |-> TRUE]

\* arguments that are ratios in [0, 1], with the ratio m / 10^e they denote
ValidRatioArgs ==
    { [arg |-> <<"0",".","5">>, m |-> 5, e |-> 1],
      [arg |-> <<" ","0",".","5"," ">>, m |-> 5, e |-> 1],
      [arg |-> <<"0",".","5","0">>, m |-> 5, e |-> 1],
      [arg |-> <<"0",".","0","0","1">>, m |-> 1, e |-> 3],
      [arg |-> <<"+","0",".","2","5">>, m |-> 25, e |-> 2],
      [arg |-> <<"0">>, m |-> 0, e |-> 0],
      [arg |-> <<"1",".","0">>, m |-> 1, e |-> 0] }

\* C10: each of the six recognised tokens yields its sampler kind; a selector
\* that differs from a token, or from any other value, only in letter case or
\* surrounding white space yields the sampler and the error that value
\* yields; parentbased_traceidratio with a valid ratio yields a parent-based
\* ratio sampler at that ratio.
C10_SelectorMapping ==
    sfe.called /\ env[tracesSamplerKey].found =>
        \A b \in SelectorBases, c \in Casings, l \in LeftPads, r \in RightPads :
            env[tracesSamplerKey].val = Variant(b, c, l, r) =>
                LET canon == samplerFromEnv([env EXCEPT ![tracesSamplerKey] = Set(b)])
                IN  /\ sfe.sampler = canon.sampler
                    /\ sfe.err = canon.err
                    /\ b \in Recognized =>
                          /\ sfe.sampler.kind = ExpectedKind(b).kind
                          /\ sfe.sampler.parentBased = ExpectedKind(b).parentBased
                    /\ b = samplerParentBasedTraceIDRatio =>
                          \A v \in ValidRatioArgs :
                              env[tracesSamplerArgKey] = Set(v.arg) =>
                                  /\ sfe.err = NoError
                                  /\ sfe.sampler.ratio =
                                        [cls |-> "finite", neg |-> FALSE, m |-> v.m, e |-> v.e]

\* the selector was the parent-based ratio token in upper case with white
\* space around it, the argument 0.001
C10_Witness ==
    /\ sfe.called
    /\ env[tracesSamplerKey].val =
          Variant(samplerParentBasedTraceIDRatio, "upper", <<" ">>, <<"\t", "\n">>)
    /\ env[tracesSamplerArgKey] = Set(<<"0",".","0","0","1">>)
    /\ sfe.sampler.kind = "TraceIDRatioBased" /\ sfe.sampler.parentBased
    /\ sfe.sampler.ratio.m = 1 /\ sfe.sampler.ratio.e = 3
    /\ sfe.err = NoError

(***************************************************************************)
(* Properties of the ratio argument                                        *)
(***************************************************************************)
RatioSelectors == {samplerTraceIDRatio, samplerParentBasedTraceIDRatio}

\* samplerFromEnv was called with a ratio selector and the argument set, so
\* that it called parseTraceIDRatio on the trimmed argument
ParsedRatioArg ==
    /\ sfe.called
    /\ env[tracesSamplerKey].found
    /\ ToLower(TrimSpace(env[tracesSamplerKey].val)) \in RatioSelectors
    /\ env[tracesSamplerArgKey].found

\* what each argument denotes: a real number m / 10^e in [0, 1] ("ratio"), a
\* number below 0 ("below"), a number above 1 ("above"), or no number
ArgMeaning ==
    { [arg |-> <<"0",".","5">>, is |-> "ratio", m |-> 5, e |-> 1],
      [arg |-> <<" ","0",".","5"," ">>, is |-> "ratio", m |-> 5, e |-> 1],
      [arg |-> <<"0",".","5","0">>, is |-> "ratio", m |-> 5, e |-> 1],
      [arg |-> <<"0",".","0","0","1">>, is |-> "ratio", m |-> 1, e |-> 3],
      [arg |-> <<"0">>, is |-> "ratio", m |-> 0, e |-> 0],
      [arg |-> <<"1">>, is |-> "ratio", m |-> 1, e |-> 0],
      [arg |-> <<"1",".","0">>, is |-> "ratio", m |-> 1, e |-> 0],
      [arg |-> <<"+","0",".","2","5">>, is |-> "ratio", m |-> 25, e |-> 2],
      [arg |-> <<"-","0",".","1">>, is |-> "below", m |-> 0, e |-> 0],
      [arg |-> <<"-","i","n","f">>, is |-> "below", m |-> 0, e |-> 0],
      [arg |-> <<"1",".","5">>, is |-> "above", m |-> 0, e |-> 0],
      [arg |-> <<"a","b","c">>, is |-> "none", m |-> 0, e |-> 0],
      [arg |-> <<>>, is |-> "none", m |-> 0, e |-> 0],
      [arg |-> <<"N","a","N">>, is |-> "none", m |-> 0, e |-> 0] }

\* the outcome of parseTraceIDRatio the validation rule gives an argument
RatioOutcomeIs(a) ==
    CASE a.is = "ratio" ->
            /\ sfe.err = NoError
            /\ sfe.sampler.kind = "TraceIDRatioBased"
            /\ sfe.sampler.ratio = [cls |-> "finite", neg |-> FALSE, m |-> a.m, e |-> a.e]
      [] a.is = "below" -> sfe.err = errNegativeTraceIDRatio
      [] a.is = "above" -> sfe.err = errGreaterThanOneTraceIDRatio
      [] a.is = "none" -> sfe.err = samplerArgParseError

RatioErrorsDistinct ==
    Cardinality({NoError.kind, errNegativeTraceIDRatio.kind,
                 errGreaterThanOneTraceIDRatio.kind, samplerArgParseError.kind}) = 4

\* C11: a ratio argument that is a real number in [0, 1] is accepted with no
\* error and yields a ratio sampler at exactly that number; one below 0 is
\* rejected with the "less than 0.0" error, one above 1 with the "greater
\* than 1.0" error, one that is not a number with a parse error; the errors
\* are pairwise distinct.
C11_RatioValidation ==
    ParsedRatioArg =>
        /\ RatioErrorsDistinct
        /\ \A a \in ArgMeaning :
              env[tracesSamplerArgKey].val = a.arg => RatioOutcomeIs(a)

\* the same rule for the arguments that denote a number: the code follows it
C11_NumbersValidated ==
    ParsedRatioArg =>
        /\ RatioErrorsDistinct
        /\ \A a \in ArgMeaning :
              env[tracesSamplerArgKey].val = a.arg /\ a.arg # <<"N","a","N">>
                  => RatioOutcomeIs(a)

\* the argument NaN was accepted: no error, and a ratio sampler at NaN
C11_Witness ==
    /\ ParsedRatioArg
    /\ env[tracesSamplerArgKey].val = <<"N","a","N">>
    /\ sfe.err = NoError
    /\ sfe.sampler.kind = "TraceIDRatioBased"
    /\ sfe.sampler.ratio.cls = "nan"

(***************************************************************************)
(* Properties of a rejected configuration                                  *)
(***************************************************************************)
\* configuration: every bounded value of the two environment variables;
\* samplerFromEnv is called directly and EnableOTELTracing is called, with an
\* exporter that can or cannot be created
NextConfig ==
    \/ CallSamplerFromEnv
    \/ \E expOk \in BOOLEAN : EnableOTELTracing(expOk)

SpecConfig == InitEnv /\ [][NextConfig]_vars

\* the selector as samplerFromEnv compares it with the tokens
NormalisedSelector == ToLower(TrimSpace(env[tracesSamplerKey].val))

UnrecognisedSelector ==
    env[tracesSamplerKey].found /\ NormalisedSelector \notin Recognized

NoProviderRegistered == globalTP = 0 /\ tps = <<>> /\ globalProp = "none"

\* C12 as stated: for a selector that is none of the six tokens,
\* samplerFromEnv returns no sampler and an unsupported-sampler error whose
\* message names the value as it was supplied in the environment, and
\* EnableOTELTracing registers no tracer provider.
C12_UnsupportedNamesSupplied ==
    UnrecognisedSelector =>
        /\ sfe.called =>
              /\ sfe.sampler = NilSampler
              /\ sfe.err.kind = "errUnsupportedSampler"
              /\ sfe.err.text = env[tracesSamplerKey].val
        /\ NoProviderRegistered

\* C12: for a selector that is none of the six tokens, samplerFromEnv returns
\* no sampler and an unsupported-sampler error whose message names the value
\* with surrounding white space removed and in lower case, and
\* EnableOTELTracing registers no tracer provider.
C12_UnsupportedNamesNormalised ==
    UnrecognisedSelector =>
        /\ sfe.called =>
              /\ sfe.sampler = NilSampler
              /\ sfe.err.kind = "errUnsupportedSampler"
              /\ sfe.err.text = NormalisedSelector
        /\ NoProviderRegistered

\* the selector was " BOGUS" followed by a tab and a newline, the argument
\* 0.5: samplerFromEnv named "bogus"; EnableOTELTracing created the exporter,
\* called samplerFromEnv and returned without registering a tracer provider
C12_Witness ==
    /\ env[tracesSamplerKey].val = Variant(Str_bogus, "upper", <<" ">>, <<"\t", "\n">>)
    /\ env[tracesSamplerArgKey] = Set(<<"0",".","5">>)
    /\ sfe.called
    /\ sfe.err = errUnsupportedSampler(Str_bogus)
    /\ Len(closures) = 1 /\ closures[1] = NoopShutdown
    /\ Len(exps) = 1
    /\ NoProviderRegistered

\* the selector is a ratio token and the argument is set to a text that is
\* no number
UnparseableRatioArg ==
    /\ env[tracesSamplerKey].found
    /\ NormalisedSelector \in RatioSelectors
    /\ env[tracesSamplerArgKey].found
    /\ \E a \in ArgMeaning :
          /\ a.arg = env[tracesSamplerArgKey].val
          /\ a.is = "none"
          /\ a.arg # <<"N","a","N">>

\* full sampling: a ratio sampler at 1.0, parent-based for the parent-based token
FullSampling ==
    IF NormalisedSelector = samplerParentBasedTraceIDRatio
    THEN ParentBased(TraceIDRatioBased(One))
    ELSE TraceIDRatioBased(One)

\* C13: with the ratio argument set but unparseable, the configuration is
\* rejected with an error and the system falls back to full sampling, not to
\* no sampling: samplerFromEnv returns the parse error with a ratio sampler
\* at 1.0 (parent-based for the parent-based token), and a call of
\* EnableOTELTracing whose exporter can be created registers a tracer
\* provider that samples with it.
C13_FallsBackToFullSampling ==
    [][UnparseableRatioArg =>
        /\ CallSamplerFromEnv =>
              sfe'.err = samplerArgParseError /\ sfe'.sampler = FullSampling
        /\ EnableOTELTracing(TRUE) =>
              /\ globalTP' # 0
              /\ tps'[globalTP'].sampler = overrideSampler(FullSampling)]_vars

\* what the code does with such an argument: samplerFromEnv returns the parse
\* error with the full-sampling sampler, and EnableOTELTracing registers no
\* tracer provider at all
C13_TracingDisabled ==
    UnparseableRatioArg =>
        /\ sfe.called => sfe.err = samplerArgParseError /\ sfe.sampler = FullSampling
        /\ NoProviderRegistered
        /\ \A i \in 1..Len(closures) : closures[i] = NoopShutdown

\* the selector was parentbased_traceidratio, the argument abc: samplerFromEnv
\* returned the parse error with a parent-based ratio sampler at 1.0, and
\* EnableOTELTracing returned the function that does nothing, having created no
\* exporter and registered no tracer provider
C13_Witness ==
    /\ env[tracesSamplerKey] = Set(samplerParentBasedTraceIDRatio)
    /\ env[tracesSamplerArgKey] = Set(<<"a","b","c">>)
    /\ sfe.called
    /\ sfe.err = samplerArgParseError
    /\ sfe.sampler = ParentBased(TraceIDRatioBased(One))
    /\ closures = <<NoopShutdown>>
    /\ exps = <<>>
    /\ NoProviderRegistered

(***************************************************************************)
(* Properties of activation and shutdown                                   *)
(***************************************************************************)
\* the parameters of a span started from context.Background() with trace id x
RootSpanParams(x) == [ParentContext |-> 0, TraceID |-> x]

\* C15: whenever a tracer provider is registered globally, the override
\* sampler installed in it wraps a non-nil sampler: with OTEL_TRACES_SAMPLER
\* unset, on which samplerFromEnv returns (nil, nil), EnableOTELTracing
\* returns before it builds a provider; so an unforced span start never calls
\* ShouldSample on a nil wrapped sampler.
C15_WrappedSamplerNotNil ==
    /\ \A i \in 1..Len(tps) : tps[i].sampler.wrapped # NilSampler
    /\ ~env[tracesSamplerKey].found => NoProviderRegistered
    /\ globalTP # 0 =>
          \A x \in TraceIDs :
              LET d == override_ShouldSample(tps[globalTP].sampler, RootSpanParams(x))
              IN  /\ d.calls = <<Invocation("wrapped", RootSpanParams(x))>>
                  /\ d.result.Decision \in {"RecordAndSample", "Drop"}

\* EnableOTELTracing registered a tracer provider whose override sampler wraps
\* the parent-based dropping sampler samplerFromEnv built; an unforced root
\* span is dropped by it
C15_Witness ==
    /\ env[tracesSamplerKey] = Set(samplerParsedBasedAlwaysOff)
    /\ globalTP = 1
    /\ tps[1].sampler = overrideSampler(ParentBased(NeverSampleSampler))
    /\ override_ShouldSample(tps[globalTP].sampler, RootSpanParams(0)).result.Decision = "Drop"

\* the calls of shutdown functions that EnableOTELTracing returned after it
\* registered a tracer provider: the positions of their returns in the log
RealReturns ==
    {k \in 1..Len(shutdownLog) :
        shutdownLog[k].ev = "return" /\ closures[shutdownLog[k].id].kind = "real"}

\* C16: every call of a shutdown function returned by a successful
\* EnableOTELTracing shuts the tracer provider down first and the exporter
\* afterwards, shuts the exporter down also when the tracer provider's
\* shutdown fails, and returns the exporter shutdown's result alone.
C16_ShutdownOrder ==
    /\ \A k \in RealReturns :
          LET c == closures[shutdownLog[k].id]
          IN  /\ k >= 3
              /\ shutdownLog[k - 2].ev = "tp.Shutdown" /\ shutdownLog[k - 2].id = c.tp
              /\ shutdownLog[k - 1].ev = "exp.Shutdown" /\ shutdownLog[k - 1].id = c.exp
              /\ shutdownLog[k].ok = shutdownLog[k - 1].ok
    /\ \A j \in 1..Len(shutdownLog) :
          /\ shutdownLog[j].ev = "tp.Shutdown" =>
                /\ j + 2 \in RealReturns
                /\ shutdownLog[j + 1].ev = "exp.Shutdown"
          /\ shutdownLog[j].ev = "exp.Shutdown" => j + 1 \in RealReturns

\* the shutdown function was called twice: the first time the tracer
\* provider's shutdown failed, the exporter was shut down all the same and nil
\* was returned; the second time the exporter's shutdown failed and its error
\* was returned
C16_Witness ==
    /\ globalTP = 1
    /\ shutdownLog = << Event("tp.Shutdown", 1, FALSE), Event("exp.Shutdown", 1, TRUE),
                        Event("return", 1, TRUE),
                        Event("tp.Shutdown", 1, TRUE), Event("exp.Shutdown", 1, FALSE),
                        Event("return", 1, FALSE) >>

====
